---- MODULE Spec2Model ----
(***************************************************************************)
(* A model of parallelrpclib (src/parallelrpclib/__init__.py): the         *)
(* two-stage transport and endpoint, and the job schedulers                *)
(* RunSequentialJobs, RunThreadedJobs and RunTwoStageJobs.                 *)
(*                                                                         *)
(* Conventions.  A Job is the tuple (p, m, a) of the source with its       *)
(* position in the batch added as the field id (the identity of the tuple  *)
(* object).  A Result is the pair (value, exception) of the source with    *)
(* the id of the Job whose call produced it added.  Python's None is the   *)
(* tuple NoneV as a value and the string "None" as an exception.  What     *)
(* the network and the remote servers do (a connection is refused, a       *)
(* response is a fault, a descriptor becomes readable) is chosen           *)
(* nondeterministically.  xmlrpclib.dumps is taken to be total: every      *)
(* (method, args) of a batch can be marshalled.                            *)
(***************************************************************************)
EXTENDS Integers, Sequences, FiniteSets, Bags, TLC

\* The largest batch handed to a scheduler.
MaxJobs == 3

\* Endpoints: TwoStageServerProxy objects and plain xmlrpclib.ServerProxy
\* objects (anything that is not a TwoStageServerProxy).
TwoStageProxies == {"t1", "t2", "t3"}
OtherProxies == {"x1"}
Proxies == TwoStageProxies \cup OtherProxies

Methods == {"ping", "stat"}
ArgLists == {<<1>>}

NoneV == <<"None">>

VARIABLES
    jobs,      \* the batch: a sequence of [id, p, m, a]
    pc,        \* the scheduler generator's control point
    cur,       \* the scheduler's loop index at pc
    seq,       \* seq[p]: TwoStageTransport._seq of endpoint p
    wk,        \* wk[i]: the call of Job i made through _sequential_request
    results,   \* RunThreadedJobs: the shared results list
    out,       \* the Results the generator has yielded, in order
    exc,       \* the exception raised out of the generator ("None": none)
    others,    \* RunTwoStageJobs: the Jobs left to the fallback
    formats,   \* RunTwoStageJobs: the payload cache, a set of [fmt, body]
    mk,        \* the bag of make_request calls [p, m, a] made so far
    sent,      \* the request bodies handed to start_request: [id, p, body]
    started,   \* RunTwoStageJobs: the list of [id, p, r]
    socklist,  \* RunTwoStageJobs: the descriptor map, a set of [fd, pr]
    ready,     \* RunTwoStageJobs: descriptors of the last select still to finish
    polls,     \* the number of blocking select calls made
    fin,       \* the set of TwoStageTransport.finish_request calls made
    sel,       \* the lists <<r, e>> the last select returned, as sets
    lock,      \* lock[p]: TwoStageTransport._lock of endpoint p is held
    th,        \* th[c]: where caller thread c is in a transport method
    issued     \* the handles TwoStageTransport.start_request has returned

vars == <<jobs, pc, cur, seq, wk, results, out, exc, others, formats, mk,
          sent, started, socklist, ready, polls, fin, sel, lock, th, issued>>

----------------------------------------------------------------------------
(* Batches *)

JobTuples == [p : Proxies, m : Methods, a : ArgLists]

BatchesOf(tuples) ==
    UNION {{[i \in 1..n |-> [id |-> i, p |-> f[i].p, m |-> f[i].m, a |-> f[i].a]] :
              f \in [1..n -> tuples]} : n \in 0..MaxJobs}

Batches == BatchesOf(JobTuples)

----------------------------------------------------------------------------
(* TwoStageServerProxy and TwoStageTransport *)

\* isinstance(p, TwoStageServerProxy)
IsTwoStage(p) == p \in TwoStageProxies

\* The encoding and allow_none an endpoint was constructed with.
Encoding(p) == IF p = "t3" THEN "latin-1" ELSE "utf-8"
AllowNone(p) == 0

request_format(p) == <<Encoding(p), AllowNone(p)>>

\* xmlrpclib.dumps(params, methodname, encoding=..., allow_none=...)
make_request(p, m, a) == <<"xml", m, a, Encoding(p), AllowNone(p)>>

\* A request state: what start_request returned.  exc = "None": the tuple
\* (h, verbose, seq); otherwise the exception start_request caught.
Handle(p, n) == [exc |-> "None", h |-> p, verbose |-> 0, seq |-> n]
Failed(p, e) == [exc |-> e, h |-> p, verbose |-> 0, seq |-> 0]
NoState == [exc |-> "None", h |-> "none", verbose |-> 0, seq |-> 0]

\* isinstance(state, Exception)
IsException(state) == state.exc # "None"

\* A start_request that leaves the token alone.
Transport_start_request_NoToken(s, p, okSend) ==
    [seq |-> s,
     raised |-> IF okSend THEN "None" ELSE "IOError",
     ret |-> Handle(p, s)]

\* A start_request that advances the token only when the request was sent.
Transport_start_request_TokenOnSuccess(s, p, okSend) ==
    [seq |-> IF okSend THEN s + 1 ELSE s,
     raised |-> IF okSend THEN "None" ELSE "IOError",
     ret |-> Handle(p, s + 1)]

\* TwoStageTransport.start_request: the token is incremented before anything
\* can fail; sent = FALSE: make_connection or a send raised.
Transport_start_request(s, p, okSend) ==
    [seq |-> s + 1,
     raised |-> IF okSend THEN "None" ELSE "IOError",
     ret |-> Handle(p, s + 1)]

\* TwoStageServerProxy.start_request: an exception is returned, not raised.
Proxy_start_request(s, p, okSend) ==
    LET t == Transport_start_request(s, p, okSend)
    IN  [seq |-> t.seq,
         ret |-> IF t.raised = "None" THEN t.ret ELSE Failed(p, t.raised)]

TokenOk(s, state) == state.seq = s

\* TwoStageTransport.get_sockfd: assert(seq == self._seq); return h.sock
Transport_get_sockfd(s, state) ==
    IF TokenOk(s, state)
    THEN [raised |-> "None", fd |-> <<state.h, state.seq>>]
    ELSE [raised |-> "AssertionError", fd |-> <<"none", 0>>]

NoFd == <<"none", 0>>

\* A get_sockfd that hands a failed start to the transport.
Proxy_get_sockfd_NoCheck(s, state) == Transport_get_sockfd(s, state)

\* A get_sockfd that reports a descriptor for a failed start.
Proxy_get_sockfd_FdForFailed(s, state) ==
    IF IsException(state)
    THEN [raised |-> "None", fd |-> <<state.h, state.seq>>]
    ELSE Transport_get_sockfd(s, state)

\* TwoStageServerProxy.get_sockfd: None for a failed start.
Proxy_get_sockfd(s, state) ==
    IF IsException(state)
    THEN [raised |-> "None", fd |-> NoFd]
    ELSE Transport_get_sockfd(s, state)

\* What the server's response can be: a 200 with a value, a 200 with a
\* fault, a status other than 200, or a failure to read it.
Responses == {"value", "fault", "status", "ioerror"}

\* The value the server at p computes from a request body.
RemoteValue(p, body) == <<"ret", p, body[2], body[3]>>

\* Lines 89-98 of TwoStageTransport.finish_request: the response is read.
\* none = TRUE with raised = "None" is the fall-through of a status other
\* than 200 (the method returns None); ret is the tuple parse_response
\* returns.
Transport_read_response(state, body, resp) ==
    CASE resp = "value"   -> [raised |-> "None", none |-> FALSE, read |-> TRUE,
                              ret |-> <<RemoteValue(state.h, body)>>]
      [] resp = "fault"   -> [raised |-> "Fault", none |-> TRUE, ret |-> <<>>,
                              read |-> TRUE]
      [] resp = "status"  -> [raised |-> "None", none |-> TRUE, ret |-> <<>>,
                              read |-> TRUE]
      [] resp = "ioerror" -> [raised |-> "IOError", none |-> TRUE, ret |-> <<>>,
                              read |-> TRUE]

\* A finish_request that does not assert the token.
Transport_finish_request_NoAssert(s, state, body, resp) ==
    Transport_read_response(state, body, resp)

\* TwoStageTransport.finish_request: the token is asserted before the
\* response is read.
Transport_finish_request(s, state, body, resp) ==
    IF ~TokenOk(s, state)
    THEN [raised |-> "AssertionError", none |-> TRUE, ret |-> <<>>, read |-> FALSE]
    ELSE Transport_read_response(state, body, resp)

\* TwoStageServerProxy.finish_request, as the pair (value, exception).
\* len(None) of the fall-through raises TypeError, which is caught.
Proxy_finish_request(s, state, body, resp) ==
    IF IsException(state)
    THEN [val |-> NoneV, err |-> state.exc]
    ELSE LET t == Transport_finish_request(s, state, body, resp)
         IN  IF t.raised # "None" THEN [val |-> NoneV, err |-> t.raised]
             ELSE IF t.none THEN [val |-> NoneV, err |-> "TypeError"]
             ELSE IF Len(t.ret) = 1 THEN [val |-> t.ret[1], err |-> "None"]
             ELSE [val |-> t.ret, err |-> "None"]

\* The entry a finish_request call of the transport leaves in the log fin.
FinEntry(id, s, state, body, resp) ==
    LET t == Transport_finish_request(s, state, body, resp)
    IN  [id |-> id, p |-> state.h, token |-> state.seq, current |-> s,
         read |-> t.read, pair |-> Proxy_finish_request(s, state, body, resp)]

Result(id, pair) == [id |-> id, val |-> pair.val, err |-> pair.err]

----------------------------------------------------------------------------
(* _sequential_request: one Job's call, in two steps.  For a
   TwoStageServerProxy it is proxy.request: make_request and start_request,
   then finish_request.  For any other proxy it is the method call
   getattr(proxy, methodname) applied to args: its beginning, then its
   return. *)

Idle == [st |-> "idle", r |-> NoState, body |-> <<>>]

\* The single call of a proxy that is not two-stage: (value, None), or the
\* exception it raised, caught by _sequential_request.
AtomicCall(p, m, a, resp) ==
    CASE resp = "value"   -> [val |-> <<"ret", p, m, a>>, err |-> "None"]
      [] resp = "fault"   -> [val |-> NoneV, err |-> "Fault"]
      [] resp = "status"  -> [val |-> NoneV, err |-> "ProtocolError"]
      [] resp = "ioerror" -> [val |-> NoneV, err |-> "IOError"]

\* The first half of _sequential_request for Job i.
BeginRequest(i, okSend) ==
    LET j == jobs[i] IN
    /\ wk[i].st \in {"idle", "spawned"}
    /\ IF IsTwoStage(j.p)
       THEN LET body == make_request(j.p, j.m, j.a)
                t == Proxy_start_request(seq[j.p], j.p, okSend)
            IN  /\ seq' = [seq EXCEPT ![j.p] = t.seq]
                /\ wk' = [wk EXCEPT ![i] = [st |-> "begun", r |-> t.ret, body |-> body]]
                /\ mk' = mk (+) SetToBag({[p |-> j.p, m |-> j.m, a |-> j.a]})
                /\ sent' = sent \cup {[id |-> i, p |-> j.p, body |-> body]}
       ELSE /\ okSend
            /\ wk' = [wk EXCEPT ![i] = [st |-> "begun", r |-> NoState, body |-> <<>>]]
            /\ UNCHANGED <<seq, mk, sent>>

\* The pair (value, exception) _sequential_request returns for Job i.
_sequential_request(i, resp) ==
    LET j == jobs[i] IN
    IF IsTwoStage(j.p)
    THEN Proxy_finish_request(seq[j.p], wk[i].r, wk[i].body, resp)
    ELSE AtomicCall(j.p, j.m, j.a, resp)

\* The second half of _sequential_request for Job i.
EndRequest(i, resp) ==
    LET j == jobs[i] IN
    /\ wk[i].st = "begun"
    /\ wk' = [wk EXCEPT ![i].st = "done"]
    /\ fin' = IF IsTwoStage(j.p) /\ ~IsException(wk[i].r)
              THEN fin \cup {FinEntry(i, seq[j.p], wk[i].r, wk[i].body, resp)}
              ELSE fin

\* A failed start leaves nothing to read: finish_request returns at once.
RespFor(i, responses) ==
    IF IsTwoStage(jobs[i].p) /\ IsException(wk[i].r) THEN {"value"} ELSE responses

----------------------------------------------------------------------------
(* The state every scheduler starts in *)

InitBatch(batches, pc0) ==
    /\ jobs \in batches
    /\ pc = pc0
    /\ cur = 0
    /\ seq = [p \in TwoStageProxies |-> 0]
    /\ wk = [i \in 1..Len(jobs) |-> Idle]
    /\ results = <<>>
    /\ out = <<>>
    /\ exc = "None"
    /\ others = <<>>
    /\ formats = {}
    /\ mk = EmptyBag
    /\ sent = {}
    /\ started = <<>>
    /\ socklist = {}
    /\ ready = {}
    /\ polls = 0
    /\ fin = {}
    /\ sel = [r |-> {}, e |-> {}, todo |-> EmptyBag]
    /\ lock = [p \in TwoStageProxies |-> FALSE]
    /\ th = <<>>
    /\ issued = <<>>

twoStageVars == <<others, formats, started, socklist, ready, polls>>

----------------------------------------------------------------------------
(* RunSequentialJobs: the generator expression
   (_sequential_request(p, m, a) for p, m, a in jobs) *)

\* A generator that walks the batch from its end.
NextJobBackwards(n) == Len(jobs) - n

\* The Job the generator expression takes after n Jobs.
NextJob(n) == n + 1

\* next(): the iteration takes the next Job of the list and its call begins.
SeqBeginOn(list, pcNext, pcCall) ==
    /\ pc = pcNext
    /\ cur < Len(list)
    /\ \E okSend \in BOOLEAN : BeginRequest(list[NextJob(cur)].id, okSend)
    /\ cur' = cur + 1
    /\ pc' = pcCall
    /\ UNCHANGED <<jobs, lock, th, issued, sel, results, out, exc, fin>>
    /\ UNCHANGED twoStageVars

\* The call returns and its Result is yielded.
SeqEndOn(pcNext, pcCall, responses) ==
    /\ pc = pcCall
    /\ \E i \in 1..Len(jobs) :
         /\ wk[i].st = "begun"
         /\ \E resp \in RespFor(i, responses) :
              /\ EndRequest(i, resp)
              /\ out' = Append(out, Result(i, _sequential_request(i, resp)))
    /\ pc' = pcNext
    /\ UNCHANGED <<jobs, lock, th, issued, sel, cur, seq, results, exc, mk, sent>>
    /\ UNCHANGED twoStageVars

SeqBegin == SeqBeginOn(jobs, "seq_next", "seq_call")

SeqEnd == SeqEndOn("seq_next", "seq_call", Responses)

\* The iteration is exhausted: StopIteration.
SeqStop ==
    /\ pc = "seq_next"
    /\ cur = Len(jobs)
    /\ pc' = "done"
    /\ UNCHANGED <<jobs, lock, th, issued, sel, cur, seq, wk, results, out, exc, mk, sent, fin>>
    /\ UNCHANGED twoStageVars

InitSeq == InitBatch(Batches, "seq_next")
NextSeq == SeqBegin \/ SeqEnd \/ SeqStop
SpecSeq == InitSeq /\ [][NextSeq]_vars

----------------------------------------------------------------------------
(* RunThreadedJobs.  wk[i].st is the state of the thread of Job i: "idle"
   (not started), "spawned" (started, runit not yet in its call), "begun"
   (inside _sequential_request), "done" (the Result is appended and the
   thread has ended).  list.append and list.pop are atomic. *)

\* Neither the method nor the encoding changes what a thread does: one
\* method, one two-stage endpoint and one other are enough, and so are one
\* response of each kind (a value, an error).
ThreadedBatches == BatchesOf([p : {"t1", "x1"}, m : {"ping"}, a : ArgLists])
ThreadedResponses == {"value", "fault"}

\* threads.append(threading.Thread(target=runit, ...)); threads[-1].start()
ThrSpawn ==
    /\ pc = "thr_spawn"
    /\ cur < Len(jobs)
    /\ wk' = [wk EXCEPT ![cur + 1].st = "spawned"]
    /\ cur' = cur + 1
    /\ UNCHANGED <<jobs, lock, th, issued, sel, pc, seq, results, out, exc, mk, sent, fin>>
    /\ UNCHANGED twoStageVars

\* The first loop ends; the loop over threads begins.
ThrSpawned ==
    /\ pc = "thr_spawn"
    /\ cur = Len(jobs)
    /\ pc' = "thr_join"
    /\ cur' = 0
    /\ UNCHANGED <<jobs, lock, th, issued, sel, seq, wk, results, out, exc, mk, sent, fin>>
    /\ UNCHANGED twoStageVars

\* runit of thread i enters _sequential_request.
ThrBegin(i) ==
    /\ wk[i].st = "spawned"
    /\ \E okSend \in BOOLEAN : BeginRequest(i, okSend)
    /\ UNCHANGED <<jobs, lock, th, issued, sel, pc, cur, results, out, exc, fin>>
    /\ UNCHANGED twoStageVars

\* results.append(_sequential_request(p, m, a)), and the thread ends.
runit(i) ==
    /\ wk[i].st = "begun"
    /\ \E resp \in RespFor(i, ThreadedResponses) :
         /\ EndRequest(i, resp)
         /\ results' = Append(results, Result(i, _sequential_request(i, resp)))
    /\ UNCHANGED <<jobs, lock, th, issued, sel, pc, cur, seq, out, exc, mk, sent>>
    /\ UNCHANGED twoStageVars

\* A join that returns without waiting for the thread.
JoinedNoWait(i) == TRUE

\* t.join() returns once thread i has ended.
Joined(i) == wk[i].st = "done"

ThrJoin ==
    /\ pc = "thr_join"
    /\ cur < Len(jobs)
    /\ Joined(cur + 1)
    /\ cur' = cur + 1
    /\ pc' = "thr_drain"
    /\ UNCHANGED <<jobs, lock, th, issued, sel, seq, wk, results, out, exc, mk, sent, fin>>
    /\ UNCHANGED twoStageVars

\* A drain that stops with one Result left in the list.
DrainMore_LeavesOne(l) == Len(l) > 1

\* The condition of "while results:".
DrainMore(l) == l # <<>>

\* list.pop(0): IndexError on an empty list.
Pop0(l) ==
    IF l = <<>>
    THEN [raised |-> "IndexError", rest |-> l]
    ELSE [raised |-> "None", rest |-> Tail(l)]

\* yield results.pop(0)
ThrYield ==
    /\ pc = "thr_drain"
    /\ DrainMore(results)
    /\ LET t == Pop0(results) IN
       IF t.raised # "None"
       THEN /\ exc' = t.raised
            /\ pc' = "raised"
            /\ UNCHANGED <<results, out>>
       ELSE /\ results' = t.rest
            /\ out' = Append(out, Head(results))
            /\ UNCHANGED <<pc, exc>>
    /\ UNCHANGED <<jobs, lock, th, issued, sel, cur, seq, wk, mk, sent, fin>>
    /\ UNCHANGED twoStageVars

\* The while loop ends: on to the next thread.
ThrDrained ==
    /\ pc = "thr_drain"
    /\ ~DrainMore(results)
    /\ pc' = "thr_join"
    /\ UNCHANGED <<jobs, lock, th, issued, sel, cur, seq, wk, results, out, exc, mk, sent, fin>>
    /\ UNCHANGED twoStageVars

\* The loop over threads ends: the generator returns.
ThrStop ==
    /\ pc = "thr_join"
    /\ cur = Len(jobs)
    /\ pc' = "done"
    /\ UNCHANGED <<jobs, lock, th, issued, sel, cur, seq, wk, results, out, exc, mk, sent, fin>>
    /\ UNCHANGED twoStageVars

InitThr == InitBatch(ThreadedBatches, "thr_spawn")
NextThr ==
    \/ ThrSpawn
    \/ ThrSpawned
    \/ \E i \in 1..Len(jobs) : ThrBegin(i)
    \/ \E i \in 1..Len(jobs) : runit(i)
    \/ ThrJoin
    \/ ThrYield
    \/ ThrDrained
    \/ ThrStop
SpecThr == InitThr /\ [][NextThr]_vars

----------------------------------------------------------------------------
(* RunTwoStageJobs(jobs, fallback=RunSequentialJobs) *)

TwoStageResponses == {"value", "fault"}

\* A selection that keeps only the first two-stage Job.
Tsjs_FirstOnly(js) ==
    LET s == SelectSeq(js, LAMBDA j : IsTwoStage(j.p))
    IN  IF s = <<>> THEN s ELSE <<s[1]>>

\* tsjs = [j for j in jobs if isinstance(j[0], TwoStageServerProxy)]
Tsjs(js) == SelectSeq(js, LAMBDA j : IsTwoStage(j.p))

\* A partition that leaves every Job to the fallback.
OthersUnfiltered(js) == js

\* [j for j in jobs if not isinstance(j[0], TwoStageServerProxy)]
Others(js) == SelectSeq(js, LAMBDA j : ~IsTwoStage(j.p))

\* A key that leaves the request format out.
FormatKeyNoFormat(j) == <<j.m, j.a, <<>>>>

\* fmt = (m, a, p.request_format())
FormatKey(j) == <<j.m, j.a, request_format(j.p)>>

\* "if fmt not in formats: formats[fmt] = p" over tsjs: each key is bound to
\* the proxy of the first Job that has it.
RECURSIVE FirstProxies(_, _, _)
FirstProxies(ts, i, acc) ==
    IF i > Len(ts) THEN acc
    ELSE LET fmt == FormatKey(ts[i]) IN
         IF \E e \in acc : e.fmt = fmt
         THEN FirstProxies(ts, i + 1, acc)
         ELSE FirstProxies(ts, i + 1, acc \cup {[fmt |-> fmt, p |-> ts[i].p]})

\* formats[fmt] = p.make_request(fmt[0], fmt[1]) for every key.
BuildFormats(ts) ==
    {[fmt |-> e.fmt, body |-> make_request(e.p, e.fmt[1], e.fmt[2])] :
       e \in FirstProxies(ts, 1, {})}

\* The make_request calls BuildFormats makes.
MakeCalls(ts) ==
    {[p |-> e.p, m |-> e.fmt[1], a |-> e.fmt[2]] : e \in FirstProxies(ts, 1, {})}

\* formats[(m, a, p.request_format())]
CachedBody(fs, j) == (CHOOSE e \in fs : e.fmt = FormatKey(j)).body

\* The body that was sent for Job id.
BodyOf(id) == (CHOOSE x \in sent : x.id = id).body

\* Lines 287-298 with tsjs non-empty: the partition and the payload cache.
TsPartition ==
    /\ pc = "ts_init"
    /\ Tsjs(jobs) # <<>>
    /\ others' = Others(jobs)
    /\ formats' = BuildFormats(Tsjs(jobs))
    /\ mk' = mk (+) SetToBag(MakeCalls(Tsjs(jobs)))
    /\ pc' = "ts_start"
    /\ UNCHANGED <<jobs, lock, th, issued, sel, cur, seq, wk, results, out, exc, sent, started,
                   socklist, ready, polls, fin>>

\* Lines 287-304 with tsjs empty: "others = proxies" names nothing defined.
TsNoTwoStage ==
    /\ pc = "ts_init"
    /\ Tsjs(jobs) = <<>>
    /\ exc' = "NameError"
    /\ pc' = "raised"
    /\ UNCHANGED <<jobs, lock, th, issued, sel, cur, seq, wk, results, out, others, formats, mk, sent,
                   started, socklist, ready, polls, fin>>

\* r = p.start_request(formats[...]); started.append((p, r))
TsStart ==
    /\ pc = "ts_start"
    /\ cur < Len(Tsjs(jobs))
    /\ LET j == Tsjs(jobs)[cur + 1]
           body == CachedBody(formats, j)
       IN  \E okSend \in BOOLEAN :
             LET t == Proxy_start_request(seq[j.p], j.p, okSend) IN
             /\ seq' = [seq EXCEPT ![j.p] = t.seq]
             /\ started' = Append(started, [id |-> j.id, p |-> j.p, r |-> t.ret])
             /\ sent' = sent \cup {[id |-> j.id, p |-> j.p, body |-> body]}
    /\ cur' = cur + 1
    /\ UNCHANGED <<jobs, lock, th, issued, sel, pc, wk, results, out, exc, others, formats, mk,
                   socklist, ready, polls, fin>>

\* Every Job of tsjs is started: on to "if others:".
TsStarted ==
    /\ pc = "ts_start"
    /\ cur = Len(Tsjs(jobs))
    /\ pc' = "ts_fallback"
    /\ cur' = 0
    /\ UNCHANGED <<jobs, lock, th, issued, sel, seq, wk, results, out, exc, mk, sent, fin>>
    /\ UNCHANGED twoStageVars

\* for result in fallback(others): yield result
TsFallbackBegin == SeqBeginOn(others, "ts_fallback", "ts_fallback_call")

TsFallbackEnd == SeqEndOn("ts_fallback", "ts_fallback_call", TwoStageResponses)

\* The fallback is exhausted (or others is empty): socklist = {}.
TsFallbackDone ==
    /\ pc = "ts_fallback"
    /\ cur = Len(others)
    /\ pc' = "ts_socklist"
    /\ cur' = 0
    /\ UNCHANGED <<jobs, lock, th, issued, sel, seq, wk, results, out, exc, mk, sent, fin>>
    /\ UNCHANGED twoStageVars

\* socklist[sockfd] = pr
SockPut(sl, fd, pr) == {e \in sl : e.fd # fd} \cup {[fd |-> fd, pr |-> pr]}

\* One turn of "for pr in started": get_sockfd, whose assertion is not
\* caught here.
TsSockfd ==
    /\ pc = "ts_socklist"
    /\ cur < Len(started)
    /\ LET pr == started[cur + 1]
           g == Proxy_get_sockfd(seq[pr.p], pr.r)
       IN  IF g.raised # "None"
           THEN /\ exc' = g.raised
                /\ pc' = "raised"
                /\ UNCHANGED <<cur, socklist>>
           ELSE /\ socklist' = IF g.fd # NoFd THEN SockPut(socklist, g.fd, pr)
                               ELSE socklist
                /\ cur' = cur + 1
                /\ UNCHANGED <<pc, exc>>
    /\ UNCHANGED <<jobs, lock, th, issued, sel, seq, wk, results, out, others, formats, mk, sent,
                   started, ready, polls, fin>>

\* The map is built: on to "while socklist:".
TsSockfdDone ==
    /\ pc = "ts_socklist"
    /\ cur = Len(started)
    /\ pc' = "ts_poll"
    /\ UNCHANGED <<jobs, lock, th, issued, sel, cur, seq, wk, results, out, exc, mk, sent, fin>>
    /\ UNCHANGED twoStageVars

Keys(sl) == {e.fd : e \in sl}

\* r, w, e = select.select(socklist.keys(), [], socklist.keys()): blocks
\* until at least one descriptor is readable or in error.
TsSelect ==
    /\ pc = "ts_poll"
    /\ socklist # {}
    /\ \E S \in SUBSET Keys(socklist) :
         /\ S # {}
         /\ ready' = S
    /\ polls' = polls + 1
    /\ pc' = "ts_finish"
    /\ UNCHANGED <<jobs, lock, th, issued, sel, cur, seq, wk, results, out, exc, others, formats, mk,
                   sent, started, socklist, fin>>

\* started.remove(pr)
Remove(l, pr) ==
    LET i == CHOOSE k \in 1..Len(l) : l[k] = pr /\ \A n \in 1..(k - 1) : l[n] # pr
    IN  [k \in 1..(Len(l) - 1) |-> IF k < i THEN l[k] ELSE l[k + 1]]

\* One turn of "for k in set(r + e)": the request is taken out of started
\* and socklist, finished, and its Result yielded.
TsFinish ==
    /\ pc = "ts_finish"
    /\ \E k \in ready :
         LET pr == (CHOOSE e \in socklist : e.fd = k).pr IN
         /\ started' = Remove(started, pr)
         /\ socklist' = {e \in socklist : e.fd # k}
         /\ ready' = ready \ {k}
         /\ \E resp \in TwoStageResponses :
              /\ out' = Append(out, Result(pr.id,
                           Proxy_finish_request(seq[pr.p], pr.r, BodyOf(pr.id), resp)))
              /\ fin' = fin \cup {FinEntry(pr.id, seq[pr.p], pr.r, BodyOf(pr.id), resp)}
    /\ UNCHANGED <<jobs, lock, th, issued, sel, pc, cur, seq, wk, results, exc, others, formats, mk,
                   sent, polls>>

\* The for loop over set(r + e) ends: back to "while socklist:".
TsFinished ==
    /\ pc = "ts_finish"
    /\ ready = {}
    /\ pc' = "ts_poll"
    /\ UNCHANGED <<jobs, lock, th, issued, sel, cur, seq, wk, results, out, exc, mk, sent, fin>>
    /\ UNCHANGED twoStageVars

\* socklist is empty: on to "for (p, r) in started:".
TsPolled ==
    /\ pc = "ts_poll"
    /\ socklist = {}
    /\ pc' = "ts_rest"
    /\ cur' = 0
    /\ UNCHANGED <<jobs, lock, th, issued, sel, seq, wk, results, out, exc, mk, sent, fin>>
    /\ UNCHANGED twoStageVars

\* One turn of "for (p, r) in started: yield p.finish_request(r)".
TsRest ==
    /\ pc = "ts_rest"
    /\ cur < Len(started)
    /\ LET pr == started[cur + 1] IN
       \E resp \in (IF IsException(pr.r) THEN {"value"} ELSE TwoStageResponses) :
         /\ out' = Append(out, Result(pr.id,
                      Proxy_finish_request(seq[pr.p], pr.r, BodyOf(pr.id), resp)))
         /\ fin' = IF IsException(pr.r) THEN fin
                   ELSE fin \cup {FinEntry(pr.id, seq[pr.p], pr.r, BodyOf(pr.id), resp)}
    /\ cur' = cur + 1
    /\ UNCHANGED <<jobs, lock, th, issued, sel, pc, seq, wk, results, exc, others, formats, mk, sent,
                   started, socklist, ready, polls>>

\* The generator returns.
TsStop ==
    /\ pc = "ts_rest"
    /\ cur = Len(started)
    /\ pc' = "done"
    /\ UNCHANGED <<jobs, lock, th, issued, sel, cur, seq, wk, results, out, exc, mk, sent, fin>>
    /\ UNCHANGED twoStageVars

InitTwo == InitBatch(Batches, "ts_init")
NextTwo ==
    \/ TsPartition
    \/ TsNoTwoStage
    \/ TsStart
    \/ TsStarted
    \/ TsFallbackBegin
    \/ TsFallbackEnd
    \/ TsFallbackDone
    \/ TsSockfd
    \/ TsSockfdDone
    \/ TsSelect
    \/ TsFinish
    \/ TsFinished
    \/ TsPolled
    \/ TsRest
    \/ TsStop
SpecTwo == InitTwo /\ [][NextTwo]_vars

----------------------------------------------------------------------------
(* Properties *)

Ended == pc \in {"done", "raised"}

\* The positions of out that hold a Result of Job i.
Yields(i) == {k \in 1..Len(out) : out[k].id = i}

\* Every Job of the batch has exactly one Result in out, and out has
\* nothing else.
OnePerJob ==
    /\ Len(out) = Len(jobs)
    /\ \A i \in 1..Len(jobs) : Cardinality(Yields(i)) = 1

\* A Result is a Result of Job j: the value its server returns for its
\* method and arguments, or an error.
ResultOf(r, j) ==
    /\ r.id = j.id
    /\ \/ r.err = "None" /\ r.val = <<"ret", j.p, j.m, j.a>>
       \/ r.err # "None" /\ r.val = NoneV

\* C1 (as claimed): RunTwoStageJobs, consumed to its end, has yielded exactly
\* one Result per Job of the batch, for every batch: it ends by returning,
\* never by raising, and no Job is dropped or yields twice.
C1_OneResultPerJob == Ended => (exc = "None" /\ OnePerJob)

\* C2: RunSequentialJobs yields the Result of the i-th Job as its i-th
\* Result, N Results for N Jobs, and the call of a Job begins only when the
\* Results of all the Jobs before it have been yielded, so that at most one
\* call is in progress.
C2_SequentialOrder ==
    /\ \A k \in 1..Len(out) : ResultOf(out[k], jobs[k])
    /\ pc = "done" => Len(out) = Len(jobs)
    /\ \A i \in 1..Len(jobs) : wk[i].st # "idle" => Len(out) >= i - 1
    /\ \A i \in 1..Len(jobs) : wk[i].st = "begun" => Len(out) = i - 1
    /\ Cardinality({i \in 1..Len(jobs) : wk[i].st = "begun"}) <= 1

\* Three Jobs were run to the end, the second failing.
C2_Witness ==
    /\ pc = "done"
    /\ Len(jobs) = 3
    /\ Len(out) = 3
    /\ out[1].err = "None"
    /\ out[2].err # "None"
    /\ out[3].err = "None"

\* The positions of the shared list that hold a Result of Job i.
Pending(i) == {k \in 1..Len(results) : results[k].id = i}

\* C3: under every interleaving of the worker threads with the join/drain
\* loop of RunThreadedJobs, a Result a worker appended is in the shared list
\* or has been yielded, never both and never twice; the drain never pops an
\* empty list; and the finished generator has yielded one Result per Job.
C3_ThreadedExactlyOnce ==
    /\ exc = "None"
    /\ \A i \in 1..Len(jobs) :
         /\ Cardinality(Yields(i)) + Cardinality(Pending(i)) =
              (IF wk[i].st = "done" THEN 1 ELSE 0)
         /\ \A k \in Yields(i) : ResultOf(out[k], jobs[i])
    /\ pc = "done" => OnePerJob

\* Three threads finished out of submission order and all three Results
\* were yielded.
C3_Witness ==
    /\ pc = "done"
    /\ Len(jobs) = 3
    /\ Len(out) = 3
    /\ out[1].id = 3
    /\ out[3].id = 1

\* The Jobs of RunTwoStageJobs whose start_request failed.
FailedStarts == {started[k].id : k \in {n \in 1..Len(started) : IsException(started[n].r)}}

\* C4 (as claimed), for RunTwoStageJobs: when the start of some Job failed,
\* the scheduler still ends by returning, with one Result per Job, and the
\* Result of each failed Job is (None, error).
C4_FailureIsData ==
    (Ended /\ FailedStarts # {}) =>
        /\ exc = "None"
        /\ OnePerJob
        /\ \A i \in FailedStarts : \A k \in Yields(i) :
             out[k].val = NoneV /\ out[k].err # "None"

\* The batch is made of distinct two-stage endpoints.
DistinctTwoStage ==
    /\ jobs # <<>>
    /\ \A i \in 1..Len(jobs) : IsTwoStage(jobs[i].p)
    /\ \A i, j \in 1..Len(jobs) : i # j => jobs[i].p # jobs[j].p

\* C5: RunTwoStageJobs over distinct two-stage endpoints never raises; a Job
\* whose start failed yields one Result, (None, the captured failure); any
\* other Job yields one Result, the one finish_request produced for its own
\* current handle; at the end all of them are present, in whatever order the
\* descriptors became ready.
C5_StartFailures ==
    DistinctTwoStage =>
        /\ pc # "raised"
        /\ \A i \in 1..Len(jobs) : Cardinality(Yields(i)) <= 1
        /\ \A k \in 1..Len(out) :
             IF out[k].id \in FailedStarts
             THEN out[k].val = NoneV /\ out[k].err = "IOError"
             ELSE /\ ResultOf(out[k], jobs[out[k].id])
                  /\ \E f \in fin :
                       /\ f.id = out[k].id
                       /\ f.p = jobs[out[k].id].p
                       /\ f.token = f.current
                       /\ f.read
                       /\ f.pair = [val |-> out[k].val, err |-> out[k].err]
        /\ pc = "done" => OnePerJob

\* Three endpoints, the second refusing: two successes and one error, the
\* successes in the reverse of the submission order.
C5_Witness ==
    /\ DistinctTwoStage
    /\ Len(jobs) = 3
    /\ pc = "done"
    /\ FailedStarts = {2}
    /\ Len(out) = 3
    /\ out[1].id = 3 /\ out[1].err = "None"
    /\ out[2].id = 1 /\ out[2].err = "None"
    /\ out[3].id = 2 /\ out[3].err = "IOError"

\* C6 (as claimed): a request whose start failed has been finished and its
\* Result yielded before any blocking select is made.
C6_FailedBeforePoll ==
    polls > 0 => \A i \in FailedStarts : Yields(i) # {}

\* C6 (amended): a request whose start failed never enters the descriptor
\* map, and its Result, (None, the captured failure), is yielded only after
\* the poll loop has ended with the map empty: after the Result of every
\* Job that is not such a request, and in submission order among such
\* requests.
C6_FailedAfterPollLoop ==
    /\ \A e \in socklist : ~IsException(e.pr.r)
    /\ \A k \in 1..Len(out) :
         out[k].id \in FailedStarts =>
            /\ pc \in {"ts_rest", "done"}
            /\ socklist = {}
            /\ out[k].val = NoneV /\ out[k].err = "IOError"
            /\ \A i \in 1..Len(jobs) : i \notin FailedStarts => Yields(i) # {}
            /\ \A l \in 1..Len(out) :
                 /\ out[l].id \notin FailedStarts => l < k
                 /\ (l < k /\ out[l].id \in FailedStarts) => out[l].id < out[k].id

\* The first of two requests failed to start and was yielded last, after a
\* select for its sibling.
C6_Witness ==
    /\ pc = "done"
    /\ polls > 0
    /\ FailedStarts = {1}
    /\ Len(out) = 2
    /\ out[2].id = 1

IsPipelined(i) == IsTwoStage(jobs[i].p)

MixedBatch ==
    /\ \E i \in 1..Len(jobs) : IsPipelined(i)
    /\ \E i \in 1..Len(jobs) : ~IsPipelined(i)

\* The Results of the Jobs that are not pipelined come before those of the
\* pipelined ones, in the order of the batch, and are all there once a
\* select has been made or a pipelined Result yielded.
FallbackFirst ==
    /\ \A k, l \in 1..Len(out) :
         /\ (~IsPipelined(out[k].id) /\ IsPipelined(out[l].id)) => k < l
         /\ (~IsPipelined(out[k].id) /\ ~IsPipelined(out[l].id) /\ k < l)
               => out[k].id < out[l].id
    /\ (polls > 0 \/ \E k \in 1..Len(out) : IsPipelined(out[k].id)) =>
          \A i \in 1..Len(jobs) : ~IsPipelined(i) => Yields(i) # {}

\* A step that yields the Result of a pipelined request that has a
\* descriptor yields one whose descriptor the last select reported.
YieldsReady ==
    Len(out') = Len(out) + 1 =>
        LET i == out'[Len(out')].id IN
        (IsPipelined(i) /\ i \notin FailedStarts) =>
            \E e \in socklist : e.pr.id = i /\ e.fd \in ready

\* C7: in RunTwoStageJobs every Result of the Jobs that are not pipelined is
\* yielded, in the fallback's order, before the first blocking select and
\* before any pipelined Result; a pipelined Result is then yielded when its
\* descriptor has been reported ready, whatever its place in the batch.
C7_FallbackFirst == [](FallbackFirst) /\ [][YieldsReady]_vars

\* A mixed batch was run to its end; the pipelined Results came in the
\* reverse of the submission order, after the fallback's.
C7_Witness ==
    /\ MixedBatch
    /\ Len(jobs) = 3
    /\ pc = "done"
    /\ polls = 2
    /\ ~IsPipelined(2)
    /\ Len(out) = 3
    /\ out[1].id = 2
    /\ out[2].id = 3
    /\ out[3].id = 1

\* The key of a Job, written out.
KeyOf(j) == <<j.m, j.a, Encoding(j.p), AllowNone(j.p)>>

\* Job i is the first pipelineable Job of the batch with its key.
FirstWithKey(i) ==
    /\ IsPipelined(i)
    /\ \A n \in 1..(i - 1) : IsPipelined(n) => KeyOf(jobs[n]) # KeyOf(jobs[i])

\* C8: once RunTwoStageJobs has built its cache, make_request has been
\* called once for each distinct key of the pipelineable Jobs, on the
\* endpoint of the first Job with that key, and not otherwise; every body
\* handed to start_request is the one the Job's own endpoint builds from
\* its method and arguments.
C8_Deduplication ==
    pc # "ts_init" =>
        /\ \A i \in 1..Len(jobs) : FirstWithKey(i) =>
              CopiesIn([p |-> jobs[i].p, m |-> jobs[i].m, a |-> jobs[i].a], mk) = 1
        /\ BagCardinality(mk) = Cardinality({i \in 1..Len(jobs) : FirstWithKey(i)})
        /\ \A x \in sent :
              /\ IsPipelined(x.id)
              /\ x.p = jobs[x.id].p
              /\ x.body = <<"xml", jobs[x.id].m, jobs[x.id].a,
                            Encoding(x.p), AllowNone(x.p)>>

\* Three Jobs, two endpoints sharing a key and a third with another: two
\* make_request calls, three requests sent.
C8_Witness ==
    /\ pc = "done"
    /\ Len(jobs) = 3
    /\ jobs[1].p = "t2" /\ jobs[2].p = "t1" /\ jobs[3].p = "t3"
    /\ jobs[1].m = jobs[2].m /\ jobs[2].m = jobs[3].m
    /\ BagCardinality(mk) = 2
    /\ CopiesIn([p |-> "t2", m |-> jobs[1].m, a |-> jobs[1].a], mk) = 1
    /\ Cardinality(sent) = 3

\* C9: a finish_request whose handle does not carry the transport's current
\* token reads no response and returns (None, AssertionError); the Result
\* of that call is never a success.
C9_StaleHandleDetected ==
    \A f \in fin :
        f.token # f.current =>
            /\ ~f.read
            /\ f.pair = [val |-> NoneV, err |-> "AssertionError"]
            /\ \A k \in Yields(f.id) : out[k].err = "AssertionError"
            /\ \A k \in Pending(f.id) : results[k].err = "AssertionError"

\* Two threads called request() on one endpoint; the first to start
\* finished with a stale handle, and its Result was yielded.
C9_Witness ==
    /\ pc = "done"
    /\ \E f \in fin : f.token = 1 /\ f.current = 2 /\ Yields(f.id) # {}

\* The requests of started whose handle is stale.
StaleStarted ==
    {k \in 1..Len(started) :
        ~IsException(started[k].r) /\ started[k].r.seq # seq[started[k].p]}

\* C10 (as claimed): when a handle of RunTwoStageJobs has gone stale, the
\* generator still ends by returning, with one Result per Job, the stale
\* request's being the error.
C10_StaleIsData ==
    (Ended /\ StaleStarted # {}) =>
        /\ exc = "None"
        /\ OnePerJob
        /\ \A k \in StaleStarted : \A n \in Yields(started[k].id) :
             out[n].err = "AssertionError"

\* C11 (as claimed): RunTwoStageJobs on a batch with no two-stage Job, the
\* empty batch included, ends by returning, having yielded the Results of
\* the fallback: one per Job, in the fallback's order.
C11_NoTwoStageFallsBack ==
    (Ended /\ Tsjs(jobs) = <<>>) =>
        /\ exc = "None"
        /\ OnePerJob
        /\ \A k \in 1..Len(out) : ResultOf(out[k], jobs[k])

----------------------------------------------------------------------------
(* _hybrid_requests(proxies, methodname, params): RunTwoStageJobs over one
   Job per proxy, with fallback=_threaded_requests *)

\* One method and one argument list for every proxy.
HybridBatches == BatchesOf([p : Proxies, m : {"ping"}, a : ArgLists])

HybridFallback == "_threaded_requests"

\* The number of positional parameters of a function, all without default.
Params(f) ==
    CASE f = "RunSequentialJobs"    -> 1
      [] f = "RunThreadedJobs"      -> 1
      [] f = "_sequential_requests" -> 3
      [] f = "_threaded_requests"   -> 3

\* The call f(a1, ..., an) of a function: TypeError unless n parameters.
CallRaises(f, n) == IF Params(f) = n THEN "None" ELSE "TypeError"

\* "for result in fallback(others)" with others non-empty: the call
\* fallback(others) passes one argument.
HybFallbackCall ==
    /\ pc = "ts_fallback"
    /\ others # <<>>
    /\ CallRaises(HybridFallback, 1) # "None"
    /\ exc' = CallRaises(HybridFallback, 1)
    /\ pc' = "raised"
    /\ UNCHANGED <<jobs, lock, th, issued, sel, cur, seq, wk, results, out, mk, sent, fin>>
    /\ UNCHANGED twoStageVars

InitHyb == InitBatch(HybridBatches, "ts_init")
NextHyb ==
    \/ TsPartition
    \/ TsNoTwoStage
    \/ TsStart
    \/ TsStarted
    \/ HybFallbackCall
    \/ TsFallbackDone
    \/ TsSockfd
    \/ TsSockfdDone
    \/ TsSelect
    \/ TsFinish
    \/ TsFinished
    \/ TsPolled
    \/ TsRest
    \/ TsStop
SpecHyb == InitHyb /\ [][NextHyb]_vars

\* C12 (as claimed): the hybrid call on a set of endpoints that mixes
\* two-stage and other proxies ends by returning, with exactly one (value,
\* error) pair per endpoint.
C12_HybridOnePerEndpoint ==
    (Ended /\ MixedBatch) => (exc = "None" /\ OnePerJob)

\* C13 (as claimed), in its finite form: RunTwoStageJobs never ends while a
\* request whose start succeeded is still unfinished; when the sequence has
\* terminated the descriptor map is empty and every handle left in started
\* is a captured start failure.
C13_StartedGetFinished ==
    Ended =>
        /\ socklist = {}
        /\ \A k \in 1..Len(started) : IsException(started[k].r)

----------------------------------------------------------------------------
(* RunTwoStageJobs with a server that accepts the connection and never
   responds: its descriptor never becomes readable or errored *)

SilentProxies == {"t1"}

SilentBatches == BatchesOf([p : Proxies, m : {"ping"}, a : ArgLists])

\* The descriptor is a connection to a silent server.
IsSilent(fd) == fd[1] \in SilentProxies

\* A select that does not return while a silent descriptor is polled.
SelectSets_WaitForAll(sl) ==
    IF \E k \in Keys(sl) : IsSilent(k) THEN {} ELSE (SUBSET Keys(sl)) \ {{}}

\* What select.select(socklist.keys(), [], socklist.keys()) can report: it
\* returns once at least one descriptor is ready, and a silent one never is.
SelectSets(sl) == (SUBSET {k \in Keys(sl) : ~IsSilent(k)}) \ {{}}

TsSelectSilent ==
    /\ pc = "ts_poll"
    /\ socklist # {}
    /\ \E S \in SelectSets(socklist) : ready' = S
    /\ polls' = polls + 1
    /\ pc' = "ts_finish"
    /\ UNCHANGED <<jobs, lock, th, issued, sel, cur, seq, wk, results, out, exc, others, formats, mk,
                   sent, started, socklist, fin>>

InitSilent == InitBatch(SilentBatches, "ts_init")
NextSilent ==
    \/ TsPartition
    \/ TsNoTwoStage
    \/ TsStart
    \/ TsStarted
    \/ TsFallbackBegin
    \/ TsFallbackEnd
    \/ TsFallbackDone
    \/ TsSockfd
    \/ TsSockfdDone
    \/ TsSelectSilent
    \/ TsFinish
    \/ TsFinished
    \/ TsPolled
    \/ TsRest
    \/ TsStop
\* The consumer keeps asking for the next Result, every call returns and
\* every descriptor of a responding server becomes ready.
SpecSilent == InitSilent /\ [][NextSilent]_vars /\ WF_vars(NextSilent)

\* select blocks for good: only silent descriptors are left in the map.
Stuck ==
    /\ pc = "ts_poll"
    /\ socklist # {}
    /\ \A k \in Keys(socklist) : IsSilent(k)

InMap(i) == \E e \in socklist : e.pr.id = i

\* Job i is in flight in the poll loop, on a server that responds.
Responsive(i) ==
    /\ pc \in {"ts_poll", "ts_finish"}
    /\ \E e \in socklist : e.pr.id = i /\ ~IsSilent(e.fd)

\* C14 (as claimed): with one silent server, once the scheduler waits on
\* the silent descriptor alone the only Result withheld is the silent Job's.
C14_OnlySilentWithheld ==
    Stuck => \A i \in 1..Len(jobs) : Yields(i) = {} => InMap(i)

\* C14 (amended): in the poll loop every request in flight on a responding
\* server gets its Result yielded, whether or not a silent descriptor is in
\* the map; when only the silent descriptor is left, the Results withheld
\* are the silent Job's and those of the Jobs whose start failed.
C14_SilentAndFailedWithheld ==
    /\ [](Stuck => \A i \in 1..Len(jobs) :
                      Yields(i) = {} <=> (InMap(i) \/ i \in FailedStarts))
    /\ \A i \in 1..MaxJobs : Responsive(i) ~> (Yields(i) # {})

C14_Witness ==
    /\ Stuck
    /\ FailedStarts # {}
    /\ \E i \in 1..Len(jobs) : IsPipelined(i) /\ Yields(i) # {}

----------------------------------------------------------------------------
(* The requests in flight on one transport, under RunThreadedJobs *)

\* The Jobs on endpoint p whose start succeeded and whose finish_request
\* has not been called yet.
Live(p) ==
    {i \in 1..Len(jobs) :
       /\ jobs[i].p = p
       /\ wk[i].st = "begun"
       /\ ~IsException(wk[i].r)}

\* Those of them whose handle carries the token of the transport: the
\* transport is Started(n) for that handle.
Current(p) == {i \in Live(p) : TokenOk(seq[p], wk[i].r)}

\* C15 (as claimed): a transport leaves Started(n) only through the
\* finish_request of the handle with token n; no start_request takes it
\* away from an unfinished handle.
C15_LeftOnlyByFinish ==
    [][\A p \in TwoStageProxies : \A i \in Current(p) :
         TokenOk(seq'[p], wk'[i].r) \/ wk'[i].st = "done"]_vars

\* C15 (amended): a start_request made while a handle is unfinished is not
\* rejected; it advances the token and supersedes that handle.  At most one
\* unfinished handle carries the current token, it stops doing so only by
\* its own finish_request or by a later start_request on the transport, and
\* the finish_request of a superseded handle fails its assertion without
\* reading a response.
C15_SupersededNotRejected ==
    /\ [](\A p \in TwoStageProxies : Cardinality(Current(p)) <= 1)
    /\ [](\A e \in fin : e.token # e.current =>
              ~e.read /\ e.pair.err = "AssertionError")
    /\ [][\A p \in TwoStageProxies : \A i \in Current(p) :
            \/ TokenOk(seq'[p], wk'[i].r)
            \/ wk'[i].st = "done"
            \/ /\ seq'[p] = seq[p] + 1
               /\ wk'[i] = wk[i]
               /\ \E k \in 1..Len(jobs) :
                    jobs[k].p = p /\ wk[k].st = "spawned" /\ wk'[k].st = "begun"]_vars

\* A handle is unfinished and superseded, and a superseded handle has been
\* finished.
C15_Witness ==
    /\ \E i \in Live("t1") : i \notin Current("t1")
    /\ \E e \in fin : e.token # e.current

----------------------------------------------------------------------------
(* TwoStageTransport under concurrent callers.  Each caller calls
   start_request, get_sockfd or finish_request on a transport, again and
   again; a call is "with self._lock:" around a body.  th[c] is where caller
   c is: "out" (in no call), "in" (holds the lock, body not yet run),
   "leaving" (the body has returned or raised, the with statement has not
   yet released the lock).  issued lists the handles start_request has
   returned, in order. *)

MaxSeq == 3

Callers == {"a", "b"}
Transports == {"t1", "t2"}
Operations == {"start_request", "get_sockfd", "finish_request"}

Out == [st |-> "out", op |-> "none", p |-> "none", state |-> NoState, raised |-> "None"]

\* The handles start_request of transport p has returned.
IssuedBy(p) == {issued[k] : k \in {n \in 1..Len(issued) : issued[n].h = p}}

\* The callers inside "with self._lock:" of transport p.
Inside(p) == {c \in Callers : th[c].st \in {"in", "leaving"} /\ th[c].p = p}

lockFrame == <<jobs, pc, cur, wk, results, out, exc, mk, sent, fin, sel>>

\* threading.Lock.acquire: blocks while the lock is held.
CanAcquire(l) == ~l

\* "with self._lock:" is entered by caller c for operation op of p.
LockEnter(c, p, op, state) ==
    /\ th[c].st = "out"
    /\ CanAcquire(lock[p])
    /\ lock' = [lock EXCEPT ![p] = TRUE]
    /\ th' = [th EXCEPT ![c] = [st |-> "in", op |-> op, p |-> p,
                                state |-> state, raised |-> "None"]]
    /\ UNCHANGED <<seq, issued>>
    /\ UNCHANGED lockFrame
    /\ UNCHANGED twoStageVars

\* A call of caller c on transport p begins: a start_request, or a
\* get_sockfd or finish_request on a handle the transport returned.
Call(c, p) ==
    \/ /\ seq[p] < MaxSeq
       /\ LockEnter(c, p, "start_request", NoState)
    \/ \E state \in IssuedBy(p) : \E op \in {"get_sockfd", "finish_request"} :
         LockEnter(c, p, op, state)

\* The body of start_request.
start_request_body(c) ==
    /\ th[c].st = "in"
    /\ th[c].op = "start_request"
    /\ \E okSend \in BOOLEAN :
         LET p == th[c].p
             t == Transport_start_request(seq[p], p, okSend)
         IN  /\ seq' = [seq EXCEPT ![p] = t.seq]
             /\ issued' = IF t.raised = "None" THEN Append(issued, t.ret) ELSE issued
             /\ th' = [th EXCEPT ![c].st = "leaving", ![c].raised = t.raised,
                                 ![c].state = IF t.raised = "None" THEN t.ret ELSE NoState]
    /\ UNCHANGED lock
    /\ UNCHANGED lockFrame
    /\ UNCHANGED twoStageVars

\* The body of get_sockfd.
get_sockfd_body(c) ==
    /\ th[c].st = "in"
    /\ th[c].op = "get_sockfd"
    /\ LET t == Transport_get_sockfd(seq[th[c].p], th[c].state)
       IN  th' = [th EXCEPT ![c].st = "leaving", ![c].raised = t.raised]
    /\ UNCHANGED <<lock, seq, issued>>
    /\ UNCHANGED lockFrame
    /\ UNCHANGED twoStageVars

\* The body of finish_request.
finish_request_body(c) ==
    /\ th[c].st = "in"
    /\ th[c].op = "finish_request"
    /\ \E resp \in Responses :
         LET p == th[c].p
             t == Transport_finish_request(seq[p], th[c].state,
                                           make_request(p, "ping", <<1>>), resp)
         IN  th' = [th EXCEPT ![c].st = "leaving", ![c].raised = t.raised]
    /\ UNCHANGED <<lock, seq, issued>>
    /\ UNCHANGED lockFrame
    /\ UNCHANGED twoStageVars

\* A with statement that keeps the lock when its body raises.
LockHeldAfter_KeptOnRaise(raised) == raised # "None"

\* The with statement releases the lock however its body ends.
LockHeldAfter(raised) == FALSE

\* The with statement is left: the call returns or raises to caller c.
LockExit(c) ==
    /\ th[c].st = "leaving"
    /\ lock' = [lock EXCEPT ![th[c].p] = LockHeldAfter(th[c].raised)]
    /\ th' = [th EXCEPT ![c] = Out]
    /\ UNCHANGED <<seq, issued>>
    /\ UNCHANGED lockFrame
    /\ UNCHANGED twoStageVars

InitLock ==
    /\ jobs = <<>>
    /\ pc = "callers"
    /\ cur = 0
    /\ seq = [p \in TwoStageProxies |-> 0]
    /\ wk = <<>>
    /\ results = <<>>
    /\ out = <<>>
    /\ exc = "None"
    /\ others = <<>>
    /\ formats = {}
    /\ mk = EmptyBag
    /\ sent = {}
    /\ started = <<>>
    /\ socklist = {}
    /\ ready = {}
    /\ polls = 0
    /\ fin = {}
    /\ sel = [r |-> {}, e |-> {}, todo |-> EmptyBag]
    /\ lock = [p \in TwoStageProxies |-> FALSE]
    /\ th = [c \in Callers |-> Out]
    /\ issued = <<>>
NextLock ==
    \/ \E c \in Callers : \E p \in Transports : Call(c, p)
    \/ \E c \in Callers : start_request_body(c)
    \/ \E c \in Callers : get_sockfd_body(c)
    \/ \E c \in Callers : finish_request_body(c)
    \/ \E c \in Callers : LockExit(c)
SpecLock == InitLock /\ [][NextLock]_vars

\* Caller c has a call to make on p: a handle to pass, or a start_request.
HasCall(p) == seq[p] < MaxSeq \/ IssuedBy(p) # {}

\* C16: on one transport at most one caller is inside the with statement of
\* start_request, get_sockfd or finish_request; the lock is held exactly
\* while a caller is inside, so it is free again after a return, a failed
\* assertion and a propagated exception alike; and a caller in no call can
\* enter a call on a transport whose lock is free whatever the other
\* transports' locks are.
C16_PerTransportLock ==
    /\ \A p \in Transports : Cardinality(Inside(p)) <= 1
    /\ \A p \in Transports : lock[p] <=> Inside(p) # {}
    /\ \A c \in Callers : \A p \in Transports :
         (th[c].st = "out" /\ Inside(p) = {} /\ HasCall(p)) => ENABLED Call(c, p)

\* Both callers are inside, on different transports, one after a failed
\* assertion and the other after a propagated exception.
C16_Witness ==
    /\ th["a"].st = "leaving" /\ th["a"].raised = "AssertionError"
    /\ th["b"].st = "leaving" /\ th["b"].raised = "IOError"
    /\ th["a"].p # th["b"].p

----------------------------------------------------------------------------
\* start_request has been called for every pipelined Job of the batch.
AllSent == \A i \in 1..Len(jobs) : IsPipelined(i) => \E x \in sent : x.id = i

\* The fallback has begun a call.
FallbackBegun == \E i \in 1..Len(jobs) : ~IsPipelined(i) /\ wk[i].st # "idle"

\* C17: in RunTwoStageJobs start_request has been called for every pipelined
\* Job before the fallback begins its first call and before finish_request
\* is called on any handle (so before any Result is yielded).
C17_SendBeforeRead ==
    (FallbackBegun \/ fin # {} \/ out # <<>>) => AllSent

\* The fallback is inside its first call, two requests are sent and none is
\* finished.
C17_Witness ==
    /\ pc = "ts_fallback_call"
    /\ out = <<>>
    /\ fin = {}
    /\ Cardinality({i \in 1..Len(jobs) : IsPipelined(i)}) = 2
    /\ AllSent

----------------------------------------------------------------------------
\* C18: in RunThreadedJobs every thread is started before the first join;
\* threads are joined in submission order, each join returning only when its
\* thread has ended; when the scheduler goes on to join thread i+1 the
\* Results of Jobs 1..i are all yielded, and the drain it has just ended
\* left nothing that was appended, a later Job's Result included.
C18_WaveOrdering ==
    /\ [](pc \in {"thr_join", "thr_drain"} =>
            \A i \in 1..Len(jobs) : wk[i].st # "idle")
    /\ [](pc = "thr_join" => \A i \in 1..cur : Yields(i) # {})
    /\ [][(pc = "thr_join" /\ cur' # cur) =>
            (cur' = cur + 1 /\ wk[cur'].st = "done")]_vars
    /\ [][(pc = "thr_drain" /\ pc' = "thr_join") => results = <<>>]_vars

\* Thread 1 is joined, the Result of Job 3 was yielded in its wave, ahead of
\* that of Job 1, and the scheduler is about to wait on thread 2, still
\* inside its call.
C18_Witness ==
    /\ pc = "thr_join"
    /\ cur = 1
    /\ Len(jobs) = 3
    /\ Len(out) = 2
    /\ out[1].id = 3
    /\ out[2].id = 1
    /\ wk[2].st = "begun"

----------------------------------------------------------------------------
\* Caller c runs the body of start_request on p in this step.
StartsOn(c, p) ==
    /\ th[c].st = "in"
    /\ th[c].op = "start_request"
    /\ th[c].p = p
    /\ th'[c].st = "leaving"

\* The positions of issued that hold a handle of transport p.
IssuedAt(p) == {k \in 1..Len(issued) : issued[k].h = p}

\* C19: the token of a transport starts at 0; every start_request call adds
\* exactly 1 to it, a call that fails included, and nothing else changes it;
\* a handle carries the token current when start_request returned it, so
\* the tokens a transport issued strictly increase, and a handle that passes
\* the token check is the last one the transport issued.
C19_SequenceToken ==
    /\ \A p \in Transports : seq[p] = 0
    /\ [][\A p \in Transports :
            IF \E c \in Callers : StartsOn(c, p)
            THEN seq'[p] = seq[p] + 1
            ELSE seq'[p] = seq[p]]_vars
    /\ [][issued' # issued =>
            /\ Len(issued') = Len(issued) + 1
            /\ \A k \in 1..Len(issued) : issued'[k] = issued[k]
            /\ LET state == issued'[Len(issued')]
               IN  state.seq = seq'[state.h] /\ ~IsException(state)]_vars
    /\ [](\A p \in Transports : \A i, j \in IssuedAt(p) :
            i < j => issued[i].seq < issued[j].seq)
    /\ [](\A p \in Transports : \A k \in IssuedAt(p) :
            /\ issued[k].seq \in 1..seq[p]
            /\ TokenOk(seq[p], issued[k]) => \A n \in IssuedAt(p) : n <= k)

\* Three starts on t1, the second of which failed: the handle with token 1
\* is stale and the handle with token 3 passes the check.
C19_Witness ==
    /\ seq["t1"] = 3
    /\ {issued[k].seq : k \in IssuedAt("t1")} = {1, 3}

----------------------------------------------------------------------------
(* The poll loop of RunTwoStageJobs, with the two lists select returns.
   sel.r and sel.e are the lists of the last select, sel.todo what
   "for k in ..." still has to go through, as a bag of descriptors; ready
   is the set of its elements. *)

PollBatches == BatchesOf([p : Proxies, m : {"ping"}, a : ArgLists])

\* r + e: the elements of both lists, a descriptor in both counted twice.
Concat(r, e) == SetToBag(r) (+) SetToBag(e)

\* An iteration over the list r + e itself.
SetOf_KeepsDuplicates(b) == b

\* set(r + e)
SetOf(b) == SetToBag(BagToSet(b))

\* r, w, e = select.select(socklist.keys(), [], socklist.keys()), and the
\* for loop over set(r + e) begins.
TsSelectRE ==
    /\ pc = "ts_poll"
    /\ socklist # {}
    /\ \E r \in SUBSET Keys(socklist) : \E e \in SUBSET Keys(socklist) :
         /\ r \cup e # {}
         /\ sel' = [r |-> r, e |-> e, todo |-> SetOf(Concat(r, e))]
         /\ ready' = r \cup e
    /\ polls' = polls + 1
    /\ pc' = "ts_finish"
    /\ UNCHANGED <<jobs, lock, th, issued, cur, seq, wk, results, out, exc, others, formats, mk,
                   sent, started, socklist, fin>>

\* One turn of "for k in set(r + e)": socklist[k] raises KeyError when k is
\* no longer a key of the map.
TsFinishRE ==
    /\ pc = "ts_finish"
    /\ \E k \in BagToSet(sel.todo) :
         /\ sel' = [sel EXCEPT !.todo = sel.todo (-) SetToBag({k})]
         /\ ready' = BagToSet(sel'.todo)
         /\ IF k \notin Keys(socklist)
            THEN /\ exc' = "KeyError"
                 /\ pc' = "raised"
                 /\ UNCHANGED <<started, socklist, out, fin>>
            ELSE LET pr == (CHOOSE e \in socklist : e.fd = k).pr IN
                 /\ started' = Remove(started, pr)
                 /\ socklist' = {e \in socklist : e.fd # k}
                 /\ \E resp \in TwoStageResponses :
                      /\ out' = Append(out, Result(pr.id,
                                   Proxy_finish_request(seq[pr.p], pr.r, BodyOf(pr.id), resp)))
                      /\ fin' = fin \cup {FinEntry(pr.id, seq[pr.p], pr.r, BodyOf(pr.id), resp)}
                 /\ UNCHANGED <<pc, exc>>
    /\ UNCHANGED <<jobs, lock, th, issued, cur, seq, wk, results, others, formats, mk, sent, polls>>

InitPoll == InitBatch(PollBatches, "ts_init")
NextPoll ==
    \/ TsPartition
    \/ TsNoTwoStage
    \/ TsStart
    \/ TsStarted
    \/ TsFallbackBegin
    \/ TsFallbackEnd
    \/ TsFallbackDone
    \/ TsSockfd
    \/ TsSockfdDone
    \/ TsSelectRE
    \/ TsFinishRE
    \/ TsFinished
    \/ TsPolled
    \/ TsRest
    \/ TsStop
SpecPoll == InitPoll /\ [][NextPoll]_vars

StartedIds == {started[k].id : k \in 1..Len(started)}
SentIds == {x.id : x \in sent}
FinishedIds == {out[k].id : k \in {n \in 1..Len(out) : IsPipelined(out[n].id)}}

InPollLoop == pc \in {"ts_poll", "ts_finish"}

\* C20: in the poll loop of RunTwoStageJobs every entry of the descriptor
\* map is an entry of started; started holds, once each, exactly the started
\* requests that are not finished yet; no request is finished twice and no
\* descriptor is looked up after its removal, also when select reports it as
\* readable and errored; and when the loop has ended started holds exactly
\* the requests that had no descriptor, every request with one being
\* finished.
C20_Bookkeeping ==
    /\ exc # "KeyError"
    /\ \A i \in 1..Len(jobs) : IsPipelined(i) => Cardinality(Yields(i)) <= 1
    /\ InPollLoop =>
         /\ \A e \in socklist : \E k \in 1..Len(started) : started[k] = e.pr
         /\ Cardinality(StartedIds) = Len(started)
         /\ StartedIds = SentIds \ FinishedIds
         /\ \A k \in 1..Len(started) :
              ~IsException(started[k].r) => \E e \in socklist : e.pr = started[k]
    /\ pc = "ts_rest" =>
         /\ socklist = {}
         /\ \A k \in 1..Len(started) : IsException(started[k].r)
         /\ cur = 0 =>
              /\ StartedIds = SentIds \ FinishedIds
              /\ \A i \in FinishedIds : \E e \in fin : e.id = i

\* The one select reported a descriptor as both readable and errored, its
\* request and another were finished, the loop has ended and a request
\* without a descriptor is still in started.
C20_Witness ==
    /\ pc = "ts_rest"
    /\ cur = 0
    /\ polls = 1
    /\ sel.r \cap sel.e # {}
    /\ Cardinality(FinishedIds) = 2
    /\ StartedIds # {}

====
